---------------------------- MODULE Spec2Model ----------------------------
(***************************************************************************)
(* A model of SullySearchMemory (src/memory.py): the record sequence, the  *)
(* concept index (associations), the temporal index, the keyword search    *)
(* with associative expansion, the derived queries and the JSON snapshot   *)
(* written to and read from the memory file.                               *)
(*                                                                         *)
(* A Python str is a sequence of one-character strings; a dict is a        *)
(* sequence of <<key, value>> pairs in insertion order.                    *)
(***************************************************************************)
EXTENDS Integers, Sequences, FiniteSets, TLC

(***************************************************************************)
(* Bounds of the model.                                                    *)
(***************************************************************************)
\* the store calls of a run stop at this number of records
MaxRecords == 2
\* limits -1 .. MaxLimit, and None
MaxLimit == 2
\* window_days 0 .. MaxWindow
MaxWindow == 1
\* persistence failures injected in one run
MaxIOFailures == 1
\* the store calls of a long run stop at this number of records
MaxLongRecords == 9
\* the store calls of an extraction run stop at this number of records
MaxExtractRecords == 2

(***************************************************************************)
(* Text.                                                                   *)
(***************************************************************************)
None == "None"

\* the calendar days a run spans: datetime.now() is on one of them
Days == {0, 1}

\* the hash seeds a process can start with: they fix the order in which a
\* set of str is iterated
Seeds == {0, 1}

\* the characters of the model's texts, in code point order
Alphabet == <<" ", "G", "N", "a", "b", "c", "e", "g", "i", "l", "n", "o", "r", "t", "v", "w",
             "Σ", "ς", "σ">>

Upper == {"G", "N"}

Lower == {"a", "b", "c", "e", "g", "i", "l", "n", "o", "r", "t", "v", "w"}

\* the letters outside [A-Za-z]: capital sigma, final sigma, sigma
Greek == {"Σ", "ς", "σ"}

\* the characters that have a case
IsCased(c) == c \in Upper \cup Lower \cup Greek

CharRank(c) == CHOOSE i \in 1..Len(Alphabet) : Alphabet[i] = c

\* str.lower() on one character
LowerChar(c) ==
    CASE c = "G" -> "g" [] c = "N" -> "n" [] c = "Σ" -> "σ" [] OTHER -> c

\* the capital sigma at position i ends a word: a cased character is before
\* it and none is after it
FinalSigma(s, i) ==
    /\ s[i] = "Σ"
    /\ i > 1 /\ IsCased(s[i - 1])
    /\ ~(i < Len(s) /\ IsCased(s[i + 1]))

\* str.lower(): a capital sigma that ends a word becomes the final sigma
ToLower(s) ==
    [i \in 1..Len(s) |-> IF FinalSigma(s, i) THEN "ς" ELSE LowerChar(s[i])]

\* needle in haystack
Contains(haystack, needle) ==
    \E i \in 0..(Len(haystack) - Len(needle)) :
        \A j \in 1..Len(needle) : haystack[i + j] = needle[j]

\* s < t in code point order: the canonical order of the enumeration below
RECURSIVE StrLess(_, _)
StrLess(s, t) ==
    IF s = <<>> THEN t # <<>>
    ELSE IF t = <<>> THEN FALSE
    ELSE IF s[1] # t[1] THEN CharRank(s[1]) < CharRank(t[1])
    ELSE StrLess(Tail(s), Tail(t))

\* the members of a set of str in that canonical order
RECURSIVE Sorted(_)
Sorted(S) ==
    IF S = {} THEN <<>>
    ELSE LET m == CHOOSE x \in S : \A y \in S \ {x} : StrLess(x, y)
         IN <<m>> \o Sorted(S \ {m})

Range(f) == {f[i] : i \in DOMAIN f}

Reverse(s) == [i \in 1..Len(s) |-> s[Len(s) + 1 - i]]

Rotate(s, k) ==
    IF s = <<>> THEN s
    ELSE [i \in 1..Len(s) |-> s[((i - 1 + k) % Len(s)) + 1]]

\* list(a_set): the iteration order of a set of str is a function of the
\* process's hash seed and of the set
ListOfSet(S, seed) ==
    IF seed % 2 = 0 THEN Rotate(Sorted(S), seed \div 2)
    ELSE Rotate(Reverse(Sorted(S)), seed \div 2)

\* a_list[:n], n of either sign
Take(s, n) ==
    LET stop == IF n < 0 THEN Len(s) + n ELSE n
    IN SubSeq(s, 1, IF stop < Len(s) THEN stop ELSE Len(s))

(***************************************************************************)
(* _extract_key_concepts.                                                  *)
(***************************************************************************)
\* \w: the letters of any script
IsWordChar(c) == c \in Upper \cup Lower \cup Greek

\* \b before position i (1-based) of s
Boundary(s, i) ==
    LET before == i > 1 /\ IsWordChar(s[i - 1])
        after  == i <= Len(s) /\ IsWordChar(s[i])
    IN before # after

\* the length of the longest run of lower-case letters of s from position i
RECURSIVE LowerRun(_, _)
LowerRun(s, i) ==
    IF i <= Len(s) /\ s[i] \in Lower THEN 1 + LowerRun(s, i + 1) ELSE 0

\* the end (exclusive) of the match of \b[A-Z][a-z]{3,}\b at i, or 0
CapMatch(s, i) ==
    IF i <= Len(s) /\ Boundary(s, i) /\ s[i] \in Upper
       /\ LowerRun(s, i + 1) >= 3
       /\ Boundary(s, i + 1 + LowerRun(s, i + 1))
    THEN i + 1 + LowerRun(s, i + 1)
    ELSE 0

\* the end (exclusive) of the match of
\* \b[a-z]{3,} [a-z]{3,}(?: [a-z]{3,})?\b at i, or 0
PhraseMatch(s, i) ==
    LET n1 == LowerRun(s, i)
        p2 == i + n1 + 1
        n2 == LowerRun(s, p2)
        p3 == p2 + n2 + 1
        n3 == LowerRun(s, p3)
    IN IF i <= Len(s) /\ Boundary(s, i) /\ n1 >= 3
          /\ p2 - 1 <= Len(s) /\ s[p2 - 1] = " " /\ n2 >= 3
       THEN IF p3 - 1 <= Len(s) /\ s[p3 - 1] = " " /\ n3 >= 3
               /\ Boundary(s, p3 + n3)
            THEN p3 + n3
            ELSE IF Boundary(s, p2 + n2) THEN p2 + n2 ELSE 0
       ELSE 0

\* re.findall: the non-overlapping matches, left to right
RECURSIVE FindAllCap(_, _)
FindAllCap(s, i) ==
    IF i > Len(s) THEN <<>>
    ELSE IF CapMatch(s, i) > 0
         THEN <<SubSeq(s, i, CapMatch(s, i) - 1)>> \o FindAllCap(s, CapMatch(s, i))
         ELSE FindAllCap(s, i + 1)

RECURSIVE FindAllPhrase(_, _)
FindAllPhrase(s, i) ==
    IF i > Len(s) THEN <<>>
    ELSE IF PhraseMatch(s, i) > 0
         THEN <<SubSeq(s, i, PhraseMatch(s, i) - 1)>> \o FindAllPhrase(s, PhraseMatch(s, i))
         ELSE FindAllPhrase(s, i + 1)

\* "Limit to top 10"
ConceptCap == 10

\* mutant of extract_key_concepts: no cap
extract_key_concepts_uncapped(text, seed) ==
    LET capitalized  == FindAllCap(text, 1)
        phrases      == FindAllPhrase(ToLower(text), 1)
        all_concepts == Range(capitalized \o phrases)
    IN ListOfSet(all_concepts, seed)

extract_key_concepts(text, seed) ==
    LET capitalized  == FindAllCap(text, 1)
        phrases      == FindAllPhrase(ToLower(text), 1)
        all_concepts == Range(capitalized \o phrases)
    IN Take(ListOfSet(all_concepts, seed), ConceptCap)

(***************************************************************************)
(* Values: dict, the result payload, the arguments of the store calls.     *)
(***************************************************************************)
\* an Optional argument: None, or a value
NoneOpt == <<>>

Some(x) == <<x>>

\* a dict key: a str, or an int (kept by its decimal digits)
StrKey(k) == [type |-> "str", repr |-> k]

IntKey(k) == [type |-> "int", repr |-> k]

HasKey(d, k) == \E i \in 1..Len(d) : d[i][1] = k

KeyPos(d, k) == CHOOSE i \in 1..Len(d) : d[i][1] = k

\* d[k]
Get(d, k) == d[KeyPos(d, k)][2]

\* d[k] = v: a new key goes last, a known key keeps its place
Put(d, k, v) ==
    IF HasKey(d, k) THEN [d EXCEPT ![KeyPos(d, k)] = <<k, v>>]
    ELSE Append(d, <<k, v>>)

\* result: Any, here a str or a dict of str values
StrResult(t) == [tag |-> "str", text |-> t]

DictResult(items) == [tag |-> "dict", items |-> items]

tGrav == <<"G", "r", "a", "v">>

tgrav == <<"g", "r", "a", "v">>

tLowGrav == <<"l", "o", "w", " ", "g", "r", "a", "v">>

tBigGrav == <<"b", "i", "g", " ", "g", "r", "a", "v">>

tNewt == <<"N", "e", "w", "t">>

tnewt == <<"n", "e", "w", "t">>

tNewtGrav == <<"N", "e", "w", "t", " ", "g", "r", "a", "v">>

tabc == <<"a", "b", "c">>

\* the (query, result) pairs given to store_query
QueryInputs ==
    { <<tGrav, StrResult(tLowGrav)>>,
      <<tabc, DictResult(<< <<IntKey("1"), tabc>>, <<StrKey("response"), tNewt>> >>)>> }

\* the (content, concepts) pairs given to store_experience
ExperienceInputs ==
    { <<tNewtGrav, NoneOpt>>,
      <<tNewtGrav, Some(<<>>)>>,
      <<tabc, Some(<<tLowGrav>>)>>,
      <<tabc, Some(<<tBigGrav>>)>>,
      <<tabc, Some(<<tGrav, tgrav>>)>> }

\* the experiences of a long run: one without concepts, one with two
LongInputs ==
    { <<tabc, NoneOpt>>,
      <<tabc, Some(<<tGrav, tLowGrav>>)>> }

\* the words of the long text of the extraction runs
ExtractWords ==
    << <<"G", "r", "a", "v">>,
       <<"N", "e", "w", "t">>,
       <<"G", "a", "t", "e">>,
       <<"N", "o", "v", "a">>,
       <<"G", "r", "o", "w">>,
       <<"N", "e", "a", "r">>,
       <<"G", "a", "i", "n">>,
       <<"N", "i", "n", "e">>,
       <<"G", "o", "a", "l">>,
       <<"N", "o", "t", "e">>,
       <<"G", "l", "o", "w">>,
       <<"N", "a", "i", "l">> >>

\* " ".join(words)
RECURSIVE JoinWords(_)
JoinWords(words) ==
    IF words = <<>> THEN <<>>
    ELSE IF Len(words) = 1 THEN words[1]
    ELSE words[1] \o <<" ">> \o JoinWords(Tail(words))

\* the texts of the extraction runs: the first words of the long text, and
\* two texts without a capitalized word
ExtractTexts ==
    {JoinWords(SubSeq(ExtractWords, 1, n)) : n \in 1..Len(ExtractWords)}
    \cup {tabc, tLowGrav}

\* store_experience(content, source) of these texts, no concepts given
ExtractInputs == {<<text, NoneOpt>> : text \in ExtractTexts}

Source == <<"b", "o", "o", "k">>

\* importance: float = 0.5
DefaultImportance == "0.5"

(***************************************************************************)
(* The state.                                                              *)
(***************************************************************************)
VARIABLES
    storage,         \* self.storage: the entries, entry id i at position i + 1
    associations,    \* self.associations: dict concept -> list of ids
    temporal_index,  \* self.temporal_index: dict day key -> list of ids
    memory_file,     \* self.memory_file: None, or the path
    disk,            \* the content of the memory file
    hashseed,        \* the hash seed of the process
    now,             \* the day datetime.now() falls on
    ioFailures,      \* persistence failures so far
    base,            \* len(self.storage) after the last __init__ or clear_memory
    calls,           \* the store calls since the last __init__ or clear_memory
    ret,             \* the last call: its name, arguments, return value,
                     \* exception and what it printed
    frames,          \* the store_query call each thread is in: its position
                     \* and its locals
    lock,            \* the thread holding the callers' lock
    synchronized     \* whether the callers take the lock around a call

vars == <<storage, associations, temporal_index, memory_file, disk, hashseed,
          now, ioFailures, base, calls, ret, frames, lock, synchronized>>

threadVars == <<frames, lock, synchronized>>

\* the threads that share the store
Threads == {"first", "second"}

NoThread == "nobody"

\* a thread outside store_query
IdleFrame == [pc |-> "idle", inp |-> None, timestamp |-> None,
              memory_index |-> None, slot |-> None, value |-> None]

Path == "memory.json"

Absent == [kind |-> "absent"]

Corrupt == [kind |-> "corrupt"]

File(data) == [kind |-> "file", data |-> data]

\* os.path.exists(self.memory_file)
Exists == disk # Absent

\* mutant of append_entry: the entry is put in front
insert_entry_first(stor, entry) == <<entry>> \o stor

\* self.storage.append(memory_entry)
append_entry(stor, entry) == Append(stor, entry)

\* mutant of NextIndex: the length is read after the append
NextIndexAfterAppend(stor) == Len(stor) + 1

\* mutant of NextIndex: every entry gets the first id
NextIndexFirst(stor) == 0

\* memory_index = len(self.storage), before the append
NextIndex(stor) == Len(stor)

\* the outcomes of one persistence step
Outcomes == IF ioFailures < MaxIOFailures THEN {"ok", "fail_open", "fail_write"} ELSE {"ok"}

Failed(outcome) == IF outcome = "ok" THEN 0 ELSE 1

(***************************************************************************)
(* The temporal index and the concept index.                               *)
(***************************************************************************)
\* timestamp.strftime("%Y-%m-%d"): the day of the timestamp
time_key(timestamp) == timestamp

\* mutant of IndexByTime: the day's bucket is started anew by every call
IndexByTimeFresh(tindex, key, memory_index) ==
    Put(tindex, key, <<memory_index>>)

\* mutant of IndexByTime: the id is put in front of the day's bucket
IndexByTimeFront(tindex, key, memory_index) ==
    LET t1 == IF HasKey(tindex, key) THEN tindex ELSE Put(tindex, key, <<>>)
    IN Put(t1, key, <<memory_index>> \o Get(t1, key))

\* lines 66-68 and 114-116
IndexByTime(tindex, key, memory_index) ==
    LET t1 == IF HasKey(tindex, key) THEN tindex ELSE Put(tindex, key, <<>>)
    IN Put(t1, key, Append(Get(t1, key), memory_index))

IsIn(x, list) == \E i \in 1..Len(list) : list[i] = x

\* mutant of add_association: the id is appended without the membership test
add_association_unchecked(assoc, concept, memory_index) ==
    LET concept_lower == ToLower(concept)
        a1 == IF HasKey(assoc, concept_lower) THEN assoc
              ELSE Put(assoc, concept_lower, <<>>)
    IN Put(a1, concept_lower, Append(Get(a1, concept_lower), memory_index))

add_association(assoc, concept, memory_index) ==
    LET concept_lower == ToLower(concept)
        a1 == IF HasKey(assoc, concept_lower) THEN assoc
              ELSE Put(assoc, concept_lower, <<>>)
    IN IF IsIn(memory_index, Get(a1, concept_lower)) THEN a1
       ELSE Put(a1, concept_lower, Append(Get(a1, concept_lower), memory_index))

\* for concept in concepts: self._add_association(concept, memory_index)
RECURSIVE AddAll(_, _, _)
AddAll(assoc, concepts, memory_index) ==
    IF concepts = <<>> THEN assoc
    ELSE AddAll(add_association(assoc, Head(concepts), memory_index),
                Tail(concepts), memory_index)

index_concepts(assoc, memory_index, query, result, seed) ==
    LET query_concepts == extract_key_concepts(query, seed)
        result_concepts ==
            IF result.tag = "str" THEN extract_key_concepts(result.text, seed)
            ELSE IF HasKey(result.items, StrKey("response"))
                 THEN extract_key_concepts(Get(result.items, StrKey("response")), seed)
                 ELSE <<>>
        all_concepts == Range(query_concepts \o result_concepts)
    IN AddAll(assoc, ListOfSet(all_concepts, seed), memory_index)

(***************************************************************************)
(* The snapshot and the memory file.                                       *)
(***************************************************************************)
export_full_system(stor, assoc, tindex) ==
    [storage |-> stor, associations |-> assoc, temporal_index |-> tindex]

\* json.dump writes every key of a dict as a string
JsonItems(items) == [i \in 1..Len(items) |-> <<StrKey(items[i][1].repr), items[i][2]>>]

JsonEntry(entry) ==
    IF "result" \in DOMAIN entry /\ entry.result.tag = "dict"
    THEN [entry EXCEPT !.result = DictResult(JsonItems(entry.result.items))]
    ELSE entry

\* the document json.dump(self.export_full_system(), f) writes, as json.load
\* reads it back
json_dump(system) ==
    [storage |-> [i \in 1..Len(system.storage) |-> JsonEntry(system.storage[i])],
     associations |-> system.associations,
     temporal_index |-> system.temporal_index]

NoPrint == "none"

NoError == "none"

\* mutant of save_to_file: no try/except around the write
save_to_file_uncaught(system, outcome) ==
    IF memory_file = None
    THEN [disk |-> disk, printed |-> "none", raised |-> FALSE]
    ELSE CASE outcome = "ok" ->
                [disk |-> File(json_dump(system)), printed |-> "none",
                 raised |-> FALSE]
           [] outcome = "fail_open" ->
                [disk |-> disk, printed |-> "none", raised |-> TRUE]
           [] OTHER ->
                [disk |-> Corrupt, printed |-> "none", raised |-> TRUE]

\* _save_to_file, called with the structures as the store call left them:
\* what the file holds afterwards, what is printed, and whether an
\* exception leaves the method
save_to_file(system, outcome) ==
    IF memory_file = None
    THEN [disk |-> disk, printed |-> NoPrint, raised |-> FALSE]
    ELSE CASE outcome = "ok" ->
                [disk |-> File(json_dump(system)), printed |-> NoPrint,
                 raised |-> FALSE]
           [] outcome = "fail_open" ->
                [disk |-> disk, printed |-> "Could not save memory to file",
                 raised |-> FALSE]
           [] OTHER ->
                [disk |-> Corrupt, printed |-> "Could not save memory to file",
                 raised |-> FALSE]

\* mutant of load_from_file: only the records are restored
load_from_file_records_only(stor, assoc, tindex, file, outcome) ==
    IF memory_file = None \/ file = Absent
    THEN [storage |-> stor, associations |-> assoc, temporal_index |-> tindex,
          printed |-> NoPrint, raised |-> FALSE]
    ELSE IF outcome # "ok" \/ file = Corrupt
    THEN [storage |-> stor, associations |-> assoc, temporal_index |-> tindex,
          printed |-> "Could not load memory from file", raised |-> FALSE]
    ELSE [storage |-> IF "storage" \in DOMAIN file.data
                      THEN file.data.storage ELSE stor,
          associations |-> assoc, temporal_index |-> tindex,
          printed |-> NoPrint, raised |-> FALSE]

\* _load_from_file of a memory file holding `file` into the structures stor,
\* assoc, tindex
load_from_file(stor, assoc, tindex, file, outcome) ==
    IF memory_file = None \/ file = Absent
    THEN [storage |-> stor, associations |-> assoc, temporal_index |-> tindex,
          printed |-> NoPrint, raised |-> FALSE]
    ELSE IF outcome # "ok" \/ file = Corrupt
    THEN [storage |-> stor, associations |-> assoc, temporal_index |-> tindex,
          printed |-> "Could not load memory from file", raised |-> FALSE]
    ELSE LET data == file.data
         IN [storage |-> IF "storage" \in DOMAIN data THEN data.storage ELSE stor,
             associations |-> IF "associations" \in DOMAIN data
                              THEN data.associations ELSE assoc,
             temporal_index |-> IF "temporal_index" \in DOMAIN data
                                THEN data.temporal_index ELSE tindex,
             printed |-> NoPrint, raised |-> FALSE]

(***************************************************************************)
(* The operations that change the store.                                   *)
(***************************************************************************)
\* SullySearchMemory(file) in a new process, no memory file on the disk
InitStore(file) ==
    /\ storage = <<>>
    /\ associations = <<>>
    /\ temporal_index = <<>>
    /\ memory_file = file
    /\ disk = Absent
    /\ hashseed \in Seeds
    /\ now = 0
    /\ ioFailures = 0
    /\ base = 0
    /\ calls = 0
    /\ ret = [op |-> "__init__", args |-> <<>>, value |-> None, error |-> NoError,
              printed |-> NoPrint]
    /\ frames = [t \in Threads |-> IdleFrame]
    /\ lock = NoThread

\* the store without a memory file
Init == InitStore(None) /\ synchronized = FALSE

\* the store on a memory file
InitPersist == InitStore(Path) /\ synchronized = FALSE

SaveOutcomes == IF memory_file = None THEN {"ok"} ELSE Outcomes

\* mutant of Flush: the snapshot is taken before the call's updates
FlushBeforeUpdate(op, args, memory_index, outcome) ==
    \E saved \in {save_to_file(export_full_system(storage, associations,
                                                  temporal_index), outcome)} :
       /\ disk' = saved.disk
       /\ ioFailures' = ioFailures + Failed(outcome)
       /\ ret' = [op |-> op, args |-> args, value |-> memory_index,
                  error |-> NoError, printed |-> saved.printed]

\* the end of a store call: the flush, then return memory_index
Flush(op, args, memory_index, outcome) ==
    \E saved \in {save_to_file(export_full_system(storage', associations',
                                                  temporal_index'), outcome)} :
       /\ disk' = saved.disk
       /\ ioFailures' = ioFailures + Failed(outcome)
       /\ ret' = IF saved.raised
                 THEN [op |-> op, args |-> args, value |-> None, error |-> "OSError",
                       printed |-> saved.printed]
                 ELSE [op |-> op, args |-> args, value |-> memory_index,
                       error |-> NoError, printed |-> saved.printed]

store_query ==
    /\ Len(storage) < MaxRecords
    /\ \E inp \in QueryInputs, outcome \in SaveOutcomes :
         LET query == inp[1]
             result == inp[2]
             timestamp == now
             entry == [query |-> query, result |-> result,
                       timestamp |-> timestamp, type |-> "query"]
             memory_index == NextIndex(storage)
         IN /\ storage' = append_entry(storage, entry)
            /\ temporal_index' =
                   IndexByTime(temporal_index, time_key(timestamp), memory_index)
            /\ associations' =
                   index_concepts(associations, memory_index, query, result, hashseed)
            /\ Flush("store_query", inp, memory_index, outcome)
    /\ calls' = calls + 1
    /\ UNCHANGED threadVars
    /\ UNCHANGED <<memory_file, hashseed, now, base>>

\* if concepts:
Truthy(concepts) == concepts # NoneOpt /\ concepts[1] # <<>>

\* store_experience, its arguments drawn from inputs, on a store of fewer
\* than bound records
StoreExperience(inputs, bound) ==
    /\ Len(storage) < bound
    /\ \E inp \in inputs, outcome \in SaveOutcomes :
         LET content == inp[1]
             concepts == inp[2]
             timestamp == now
             entry0 == [content |-> content, source |-> Source,
                        timestamp |-> timestamp, importance |-> DefaultImportance,
                        type |-> "experience"]
             entry == IF Truthy(concepts)
                      THEN [content |-> content, source |-> Source,
                            timestamp |-> timestamp,
                            importance |-> DefaultImportance,
                            type |-> "experience", concepts |-> concepts[1]]
                      ELSE entry0
             memory_index == NextIndex(storage)
         IN /\ storage' = append_entry(storage, entry)
            /\ temporal_index' =
                   IndexByTime(temporal_index, time_key(timestamp), memory_index)
            /\ associations' =
                   IF Truthy(concepts)
                   THEN AddAll(associations, concepts[1], memory_index)
                   ELSE AddAll(associations, extract_key_concepts(content, hashseed),
                               memory_index)
            /\ Flush("store_experience", inp, memory_index, outcome)
    /\ calls' = calls + 1
    /\ UNCHANGED threadVars
    /\ UNCHANGED <<memory_file, hashseed, now, base>>

store_experience == StoreExperience(ExperienceInputs, MaxRecords)

\* the store_experience calls of an extraction run
store_experience_text == StoreExperience(ExtractInputs, MaxExtractRecords)

\* the store_experience calls of a long run
store_experience_long == StoreExperience(LongInputs, MaxLongRecords)

RemoveOutcomes ==
    IF memory_file # None /\ Exists /\ ioFailures < MaxIOFailures
    THEN {"ok", "fail"} ELSE {"ok"}

\* mutant of Cleared: the concept index is not reset
ClearedButAssociations ==
    [storage |-> <<>>, associations |-> associations, temporal_index |-> <<>>]

\* mutant of Cleared: the temporal index is not reset
ClearedButTemporal ==
    [storage |-> <<>>, associations |-> <<>>, temporal_index |-> temporal_index]

\* lines 407-409
Cleared == [storage |-> <<>>, associations |-> <<>>, temporal_index |-> <<>>]

\* mutant of clear_memory: the memory file is gone also when os.remove fails
clear_memory_file_gone ==
    /\ storage' = Cleared.storage
    /\ associations' = Cleared.associations
    /\ temporal_index' = Cleared.temporal_index
    /\ \E outcome \in RemoveOutcomes :
         /\ disk' = Absent
         /\ ioFailures' = ioFailures + Failed(outcome)
         /\ ret' = [op |-> "clear_memory", args |-> <<>>,
                    value |-> "[Memory system cleared]", error |-> NoError,
                    printed |-> IF outcome = "ok" THEN NoPrint
                                ELSE "Could not remove memory file",
                    dropped |-> Len(storage)]
    /\ base' = 0
    /\ calls' = 0
    /\ UNCHANGED threadVars
    /\ UNCHANGED <<memory_file, hashseed, now>>

\* ret.dropped is not returned: it keeps len(self.storage) as the call began
clear_memory ==
    /\ storage' = Cleared.storage
    /\ associations' = Cleared.associations
    /\ temporal_index' = Cleared.temporal_index
    /\ \E outcome \in RemoveOutcomes :
         /\ disk' = IF memory_file # None /\ Exists /\ outcome = "ok"
                    THEN Absent ELSE disk
         /\ ioFailures' = ioFailures + Failed(outcome)
         /\ ret' = [op |-> "clear_memory", args |-> <<>>,
                    value |-> "[Memory system cleared]", error |-> NoError,
                    printed |-> IF outcome = "ok" THEN NoPrint
                                ELSE "Could not remove memory file",
                    dropped |-> Len(storage)]
    /\ base' = 0
    /\ calls' = 0
    /\ UNCHANGED threadVars
    /\ UNCHANGED <<memory_file, hashseed, now>>

LoadOutcomes ==
    IF memory_file # None /\ Exists /\ disk # Corrupt /\ ioFailures < MaxIOFailures
    THEN {"ok", "fail"} ELSE {"ok"}

\* mutant of Construct: the load starts from the structures in memory
ConstructOnOldStructures ==
    /\ hashseed' \in Seeds
    /\ \E outcome \in LoadOutcomes :
         \E loaded \in {load_from_file(storage, associations, temporal_index,
                                       disk, outcome)} :
            /\ storage' = loaded.storage
            /\ associations' = loaded.associations
            /\ temporal_index' = loaded.temporal_index
            /\ base' = Len(loaded.storage)
            /\ calls' = 0
            /\ ioFailures' = ioFailures + Failed(outcome)
            /\ ret' = [op |-> "__init__", args |-> <<>>, value |-> None,
                       error |-> NoError, printed |-> loaded.printed]
    /\ UNCHANGED threadVars
    /\ UNCHANGED <<memory_file, disk, now>>

\* __init__ of a new process on the same memory_file
Construct ==
    /\ hashseed' \in Seeds
    /\ \E outcome \in LoadOutcomes :
         \E loaded \in {load_from_file(<<>>, <<>>, <<>>, disk, outcome)} :
            /\ storage' = loaded.storage
            /\ associations' = loaded.associations
            /\ temporal_index' = loaded.temporal_index
            /\ base' = Len(loaded.storage)
            /\ calls' = 0
            /\ ioFailures' = ioFailures + Failed(outcome)
            /\ ret' = [op |-> "__init__", args |-> <<>>, value |-> None,
                       error |-> NoError, printed |-> loaded.printed]
    /\ UNCHANGED threadVars
    /\ UNCHANGED <<memory_file, disk, now>>

\* midnight passes
Tick ==
    /\ now + 1 \in Days
    /\ now' = now + 1
    /\ UNCHANGED threadVars
    /\ UNCHANGED <<storage, associations, temporal_index, memory_file, disk,
                   hashseed, ioFailures, base, calls, ret>>

(***************************************************************************)
(* search.                                                                 *)
(***************************************************************************)
\* "if limit": a limit that is neither None nor 0
LimitSet(limit) == limit # NoneOpt /\ limit[1] # 0

\* "limit and len(matches) >= limit"
Reached(limit, matches) == LimitSet(limit) /\ Len(matches) >= limit[1]

Cased(text, case_sensitive) == IF case_sensitive THEN text ELSE ToLower(text)

\* lines 219-244: the query, then a str result, then the content
EntryMatched(entry, keyword, case_sensitive) ==
    LET needle == Cased(keyword, case_sensitive)
        by_query == "query" \in DOMAIN entry
                    /\ Contains(Cased(entry.query, case_sensitive), needle)
        by_result == ~by_query /\ "result" \in DOMAIN entry
                     /\ entry.result.tag = "str"
                     /\ Contains(Cased(entry.result.text, case_sensitive), needle)
        by_content == ~by_query /\ ~by_result /\ "content" \in DOMAIN entry
                      /\ Contains(Cased(entry.content, case_sensitive), needle)
    IN by_query \/ by_result \/ by_content

\* mutant of DirectScan: the scan does not stop at the limit
RECURSIVE DirectScanToEnd(_, _, _, _, _, _)
DirectScanToEnd(stor, keyword, case_sensitive, limit, i, direct_matches) ==
    IF i > Len(stor) THEN direct_matches
    ELSE DirectScanToEnd(stor, keyword, case_sensitive, limit, i + 1,
                         IF EntryMatched(stor[i], keyword, case_sensitive)
                         THEN Append(direct_matches, i - 1)
                         ELSE direct_matches)

\* lines 218-248: the ids of direct_matches, from entry i (1-based) on
RECURSIVE DirectScan(_, _, _, _, _, _)
DirectScan(stor, keyword, case_sensitive, limit, i, direct_matches) ==
    IF i > Len(stor) THEN direct_matches
    ELSE LET found == IF EntryMatched(stor[i], keyword, case_sensitive)
                      THEN Append(direct_matches, i - 1)
                      ELSE direct_matches
         IN IF Reached(limit, found) THEN found
            ELSE DirectScan(stor, keyword, case_sensitive, limit, i + 1, found)

\* mutant of AddIndices: the ids already matched are not skipped
RECURSIVE AddIndicesAll(_, _, _)
AddIndicesAll(indices, matches, limit) ==
    IF indices = <<>> THEN matches
    ELSE IF Reached(limit, Append(matches, Head(indices)))
         THEN Append(matches, Head(indices))
         ELSE AddIndicesAll(Tail(indices), Append(matches, Head(indices)), limit)

\* lines 263-267 and 274-278: the ids of one concept, those already matched
\* skipped
RECURSIVE AddIndices(_, _, _)
AddIndices(indices, matches, limit) ==
    IF indices = <<>> THEN matches
    ELSE IF IsIn(Head(indices), matches)
         THEN AddIndices(Tail(indices), matches, limit)
         ELSE IF Reached(limit, Append(matches, Head(indices)))
              THEN Append(matches, Head(indices))
              ELSE AddIndices(Tail(indices), Append(matches, Head(indices)), limit)

\* lines 271-280: self.associations.items() from item i on
RECURSIVE PartialMatches(_, _, _, _, _)
PartialMatches(assoc, needle, limit, i, matches) ==
    IF i > Len(assoc) THEN matches
    ELSE LET concept == assoc[i][1]
             indices == assoc[i][2]
         IN IF Contains(concept, needle) /\ concept # needle
            THEN LET added == AddIndices(indices, matches, limit)
                 IN IF Reached(limit, added) THEN added
                    ELSE PartialMatches(assoc, needle, limit, i + 1, added)
            ELSE PartialMatches(assoc, needle, limit, i + 1, matches)

\* the keys of the dict search returns, in its order
\* mutant of Needle: the keyword is looked up as given
NeedleAsGiven(keyword) == keyword

\* needle = keyword.lower()
Needle(keyword) == ToLower(keyword)

\* lines 254-282, from the direct matches on
Associated(assoc, keyword, limit, direct_matches) ==
    LET needle == Needle(keyword)
        exact == IF HasKey(assoc, needle)
                 THEN AddIndices(Get(assoc, needle), direct_matches, limit)
                 ELSE direct_matches
    IN IF LimitSet(limit) /\ ~(Len(exact) < limit[1]) THEN exact
       ELSE PartialMatches(assoc, needle, limit, 1, exact)

\* mutant of SearchIds: include_associations is not looked at
SearchIdsAssociated(stor, assoc, keyword, case_sensitive, limit, include_associations) ==
    LET direct_matches == DirectScan(stor, keyword, case_sensitive, limit, 1, <<>>)
    IN IF Reached(limit, direct_matches)
       THEN direct_matches
       ELSE Associated(assoc, keyword, limit, direct_matches)

\* the keys of the dict search returns, in its order
SearchIds(stor, assoc, keyword, case_sensitive, limit, include_associations) ==
    LET direct_matches == DirectScan(stor, keyword, case_sensitive, limit, 1, <<>>)
    IN IF ~include_associations \/ Reached(limit, direct_matches)
       THEN direct_matches
       ELSE Associated(assoc, keyword, limit, direct_matches)

\* self.storage[idx] raises IndexError
BadIndex(stor, ids) == \E i \in 1..Len(ids) : ids[i] < 0 \/ ids[i] >= Len(stor)

\* {idx: self.storage[idx]}
EntriesById(stor, ids) == [i \in 1..Len(ids) |-> <<ids[i], stor[ids[i] + 1]>>]

\* [self.storage[idx] for idx in ids]
Entries(stor, ids) == [i \in 1..Len(ids) |-> stor[ids[i] + 1]]

(***************************************************************************)
(* get_temporal_context, get_associated_memories, find_connections.        *)
(***************************************************************************)
\* lines 317-323: the ids of the days start_date .. end_date
RECURSIVE WindowIds(_, _, _)
WindowIds(tindex, current_date, end_date) ==
    IF current_date > end_date THEN <<>>
    ELSE (IF HasKey(tindex, time_key(current_date))
          THEN Get(tindex, time_key(current_date)) ELSE <<>>)
         \o WindowIds(tindex, current_date + 1, end_date)

\* mutant of TemporalIds: the window ends on the target date
TemporalIdsUntilTarget(tindex, target_date, window_days, limit) ==
    LET window_memories ==
            WindowIds(tindex, target_date - window_days, target_date)
    IN IF LimitSet(limit) THEN Take(window_memories, limit[1]) ELSE window_memories

TemporalIds(tindex, target_date, window_days, limit) ==
    LET window_memories ==
            WindowIds(tindex, target_date - window_days, target_date + window_days)
    IN IF LimitSet(limit) THEN Take(window_memories, limit[1]) ELSE window_memories

AssociatedIds(assoc, concept, limit) ==
    LET concept_lower == ToLower(concept)
    IN IF ~HasKey(assoc, concept_lower) THEN <<>>
       ELSE IF LimitSet(limit) THEN Take(Get(assoc, concept_lower), limit[1])
            ELSE Get(assoc, concept_lower)

\* the slots of the hash table of a new set
SetTableSize == 8

\* the slots of the table once a fifth member has been added; the model's
\* ids are all below this number, so an id's hash is its slot there
SetGrownSize == 32

NoMember == -1

\* slot k of a table is slots[k + 1]
EmptyTable(size) == [k \in 1..size |-> NoMember]

\* the members of a set in the order iteration walks its table
ListOfIntSet(slots) == SelectSeq(slots, LAMBDA v : v # NoMember)

\* the slot of member x: its hash, then the probe sequence 5 * k + 1
RECURSIVE Probe(_, _, _)
Probe(slots, k, x) ==
    IF slots[k + 1] = NoMember \/ slots[k + 1] = x THEN k
    ELSE Probe(slots, (5 * k + 1) % Len(slots), x)

Place(slots, x) == [slots EXCEPT ![Probe(slots, x % Len(slots), x) + 1] = x]

RECURSIVE PlaceAll(_, _)
PlaceAll(slots, xs) ==
    IF xs = <<>> THEN slots ELSE PlaceAll(Place(slots, Head(xs)), Tail(xs))

\* one member added; a table filled to three fifths is rebuilt larger
set_add(slots, x) ==
    LET added == Place(slots, x)
    IN IF Len(added) = SetTableSize
          /\ Len(ListOfIntSet(added)) * 5 >= (SetTableSize - 1) * 3
       THEN PlaceAll(EmptyTable(SetGrownSize), ListOfIntSet(added))
       ELSE added

RECURSIVE AddEach(_, _)
AddEach(slots, xs) ==
    IF xs = <<>> THEN slots ELSE AddEach(set_add(slots, Head(xs)), Tail(xs))

\* set(a_list)
SetOf(list) == AddEach(EmptyTable(SetTableSize), list)

\* so.intersection(other): the smaller set is walked, other when they are
\* equal in size, and its members found in the larger one are added to a
\* new set
intersection(so, other) ==
    LET swap == Len(ListOfIntSet(other)) > Len(ListOfIntSet(so))
        walked == IF swap THEN ListOfIntSet(so) ELSE ListOfIntSet(other)
        probed == IF swap THEN ListOfIntSet(other) ELSE ListOfIntSet(so)
    IN AddEach(EmptyTable(SetTableSize),
               SelectSeq(walked, LAMBDA v : IsIn(v, probed)))

\* mutant of ConnectionIds: the memories of either concept
ConnectionIdsUnion(assoc, concept1, concept2) ==
    LET concept1_lower == ToLower(concept1)
        concept2_lower == ToLower(concept2)
    IN IF ~HasKey(assoc, concept1_lower) \/ ~HasKey(assoc, concept2_lower)
       THEN <<>>
       ELSE ListOfIntSet(SetOf(Get(assoc, concept1_lower)
                               \o Get(assoc, concept2_lower)))

ConnectionIds(assoc, concept1, concept2) ==
    LET concept1_lower == ToLower(concept1)
        concept2_lower == ToLower(concept2)
    IN IF ~HasKey(assoc, concept1_lower) \/ ~HasKey(assoc, concept2_lower)
       THEN <<>>
       ELSE LET indices1 == SetOf(Get(assoc, concept1_lower))
                indices2 == SetOf(Get(assoc, concept2_lower))
            IN ListOfIntSet(intersection(indices1, indices2))

(***************************************************************************)
(* The calls that read the store.                                          *)
(***************************************************************************)
Limits == {NoneOpt} \cup {Some(n) : n \in -1..MaxLimit}

Keywords == {tgrav, tGrav, tNewt}

Concepts == {tgrav, tGrav, tLowGrav, tBigGrav, tnewt}


Windows == 0..MaxWindow

\* the arguments of the search calls of a run
SearchCalls ==
    {[keyword |-> tgrav, case_sensitive |-> FALSE, limit |-> l,
      include_associations |-> TRUE] : l \in Limits}
    \cup {[keyword |-> tGrav, case_sensitive |-> TRUE, limit |-> NoneOpt,
           include_associations |-> ia] : ia \in BOOLEAN}

\* a call that returns value, or raises IndexError at a bad index
Returned(op, args, ids, value) ==
    [op |-> op, args |-> args,
     value |-> IF BadIndex(storage, ids) THEN None ELSE value,
     error |-> IF BadIndex(storage, ids) THEN "IndexError" ELSE NoError,
     printed |-> NoPrint]

\* mutant of search: the call is itself remembered as a query
search_remembered ==
    /\ \E call \in SearchCalls :
         \E ids \in {SearchIds(storage, associations, call.keyword,
                               call.case_sensitive, call.limit,
                               call.include_associations)} :
         \E r \in {Returned("search", call, ids, EntriesById(storage, ids))} :
            /\ ret' = [op |-> r.op, args |-> r.args, value |-> r.value,
                       error |-> r.error, printed |-> r.printed,
                       again |-> ret.op = "search" /\ ret.args = call]
            /\ storage' = Append(storage,
                                 [query |-> call.keyword,
                                  result |-> StrResult(<<>>),
                                  timestamp |-> now, type |-> "query"])
    /\ UNCHANGED threadVars
    /\ UNCHANGED <<associations, temporal_index, memory_file, disk,
                   hashseed, now, ioFailures, base, calls>>

search ==
    /\ \E call \in SearchCalls :
         \E ids \in {SearchIds(storage, associations, call.keyword,
                               call.case_sensitive, call.limit,
                               call.include_associations)} :
         \E r \in {Returned("search", call, ids, EntriesById(storage, ids))} :
            ret' = [op |-> r.op, args |-> r.args, value |-> r.value,
                    error |-> r.error, printed |-> r.printed,
                    again |-> ret.op = "search" /\ ret.args = call]
    /\ UNCHANGED threadVars
    /\ UNCHANGED <<storage, associations, temporal_index, memory_file, disk,
                   hashseed, now, ioFailures, base, calls>>

get_temporal_context ==
    /\ \E target_date \in Days, window_days \in Windows,
          limit \in {NoneOpt, Some(0)} :
         \E ids \in {TemporalIds(temporal_index, target_date, window_days, limit)} :
            ret' = Returned("get_temporal_context",
                            <<target_date, window_days, limit>>, ids,
                            Entries(storage, ids))
    /\ UNCHANGED threadVars
    /\ UNCHANGED <<storage, associations, temporal_index, memory_file, disk,
                   hashseed, now, ioFailures, base, calls>>

\* mutant of get_associated_memories: an absent concept gets an empty list
get_associated_memories_setdefault ==
    /\ \E concept \in {tgrav, tGrav}, limit \in {NoneOpt, Some(0), Some(1)} :
         \E ids \in {AssociatedIds(associations, concept, limit)} :
            /\ ret' = Returned("get_associated_memories", <<concept, limit>>, ids,
                               Entries(storage, ids))
            /\ associations' = IF HasKey(associations, ToLower(concept))
                               THEN associations
                               ELSE Put(associations, ToLower(concept), <<>>)
    /\ UNCHANGED threadVars
    /\ UNCHANGED <<storage, temporal_index, memory_file, disk,
                   hashseed, now, ioFailures, base, calls>>

get_associated_memories ==
    /\ \E concept \in {tgrav, tGrav}, limit \in {NoneOpt, Some(0), Some(1)} :
         \E ids \in {AssociatedIds(associations, concept, limit)} :
            ret' = Returned("get_associated_memories", <<concept, limit>>, ids,
                            Entries(storage, ids))
    /\ UNCHANGED threadVars
    /\ UNCHANGED <<storage, associations, temporal_index, memory_file, disk,
                   hashseed, now, ioFailures, base, calls>>

find_connections ==
    /\ \E concept1 \in {tGrav}, concept2 \in {tLowGrav, tnewt} :
         \E ids \in {ConnectionIds(associations, concept1, concept2)} :
            ret' = Returned("find_connections", <<concept1, concept2>>, ids,
                            Entries(storage, ids))
    /\ UNCHANGED threadVars
    /\ UNCHANGED <<storage, associations, temporal_index, memory_file, disk,
                   hashseed, now, ioFailures, base, calls>>

Next ==
    \/ store_query
    \/ store_experience
    \/ clear_memory
    \/ Tick
    \/ search
    \/ get_temporal_context
    \/ get_associated_memories
    \/ find_connections

Spec == Init /\ [][Next]_vars

NextPersist ==
    \/ store_query
    \/ store_experience
    \/ clear_memory
    \/ Construct
    \/ Tick

SpecPersist == InitPersist /\ [][NextPersist]_vars

Sections == {"storage", "associations", "temporal_index"}

\* another program rewrites the memory file and leaves out one section of
\* it: one more failure of the persistence
Tamper ==
    /\ ioFailures < MaxIOFailures
    /\ disk # Absent /\ disk # Corrupt
    /\ DOMAIN disk.data = Sections
    /\ \E lost \in Sections :
         disk' = File([section \in Sections \ {lost} |-> disk.data[section]])
    /\ ioFailures' = ioFailures + 1
    /\ UNCHANGED threadVars
    /\ UNCHANGED <<storage, associations, temporal_index, memory_file, hashseed,
                   now, base, calls, ret>>

NextTamper ==
    \/ NextPersist
    \/ Tamper

SpecTamper == InitPersist /\ [][NextTamper]_vars

\* a long run of a store without a memory file
NextLong ==
    \/ store_experience_long
    \/ find_connections

SpecLong == Init /\ [][NextLong]_vars

\* an extraction run: texts of up to twelve capitalized words are stored
\* without concepts
NextExtract ==
    \/ store_experience_text
    \/ clear_memory

SpecExtract == Init /\ [][NextExtract]_vars

(***************************************************************************)
(* The claims.                                                             *)
(***************************************************************************)
StoreOps == {"store_query", "store_experience"}

\* a step of store_query or store_experience
StoreStep == ret'.op \in StoreOps /\ storage' # storage

\* the entry store_query or store_experience builds from its arguments
IsEntryOf(entry, op, args) ==
    IF op = "store_query"
    THEN /\ entry.type = "query"
         /\ entry.query = args[1]
         /\ entry.result = args[2]
    ELSE /\ entry.type = "experience"
         /\ entry.content = args[1]

\* C1: on a store that started empty or was cleared, the k-th store call
\* (counting from 0) returns k, which is the length of the record sequence
\* just before the call, and the entry is at that position afterwards.
C1_IdIsInsertionNumber ==
    [][(StoreStep /\ base = 0) =>
          /\ ret'.error = NoError
          /\ ret'.value = calls
          /\ ret'.value = Len(storage)
          /\ Len(storage') = Len(storage) + 1
          /\ IsEntryOf(storage'[ret'.value + 1], ret'.op, ret'.args)]_vars

\* the second store call on a store that started empty returned 1
C1_Witness ==
    /\ ret.op \in StoreOps
    /\ ret.error = NoError
    /\ ret.value = 1
    /\ base = 0
    /\ calls = 2
    /\ Len(storage) = 2

\* every query of the store returns nothing
AllQueriesEmpty ==
    /\ \A k \in Keywords, cs \in BOOLEAN, l \in Limits, ia \in BOOLEAN :
           SearchIds(storage, associations, k, cs, l, ia) = <<>>
    /\ \A c \in Concepts, l \in Limits :
           AssociatedIds(associations, c, l) = <<>>
    /\ \A c1 \in Concepts, c2 \in Concepts :
           ConnectionIds(associations, c1, c2) = <<>>
    /\ \A d \in Days, w \in Windows, l \in Limits :
           TemporalIds(temporal_index, d, w, l) = <<>>

\* C2: after clear_memory the record sequence and both indices are empty,
\* every query returns nothing for every argument, and the next store call
\* returns id 0.
C2_ClearEmptiesAll ==
    [][/\ ret'.op = "clear_memory" =>
            /\ storage' = <<>>
            /\ associations' = <<>>
            /\ temporal_index' = <<>>
            /\ AllQueriesEmpty'
       /\ (ret.op = "clear_memory" /\ StoreStep) =>
            (ret'.error = NoError /\ ret'.value = 0)]_vars

\* clear_memory has dropped two records that the concept index knew
C2_Witness ==
    /\ ret.op = "clear_memory"
    /\ ret.dropped = 2
    /\ storage = <<>>

\* the results of search, get_associated_memories and get_temporal_context
\* on the structures stor, assoc, tindex, for the arguments of the model
SearchResult(stor, assoc, k, cs, l, ia) ==
    EntriesById(stor, SearchIds(stor, assoc, k, cs, l, ia))

SameResults(stor1, assoc1, tindex1, stor2, assoc2, tindex2) ==
    /\ \A k \in Keywords, cs \in BOOLEAN, l \in Limits, ia \in BOOLEAN :
           SearchResult(stor1, assoc1, k, cs, l, ia)
               = SearchResult(stor2, assoc2, k, cs, l, ia)
    /\ \A c \in Concepts, l \in Limits :
           Entries(stor1, AssociatedIds(assoc1, c, l))
               = Entries(stor2, AssociatedIds(assoc2, c, l))
    /\ \A d \in Days, w \in Windows, l \in Limits :
           Entries(stor1, TemporalIds(tindex1, d, w, l))
               = Entries(stor2, TemporalIds(tindex2, d, w, l))

\* C3: the snapshot of a store, restored into a fresh store, gives a store
\* on which search, get_associated_memories and get_temporal_context return
\* the same ids, in the same order, with the same entries.
C3_RoundTripSameResults ==
    LET snapshot == File(json_dump(export_full_system(storage, associations,
                                                      temporal_index)))
        restored == load_from_file(<<>>, <<>>, <<>>, snapshot, "ok")
    IN SameResults(storage, associations, temporal_index,
                   restored.storage, restored.associations,
                   restored.temporal_index)

\* the last call is the one that made the store what it is. The queries
\* are functions of the store and leave it alone: every store a run
\* reaches is met in such a state, the one its last mutation returned in.
StoreJustBuilt == ret.op \in StoreOps \cup {"__init__", "clear_memory"}

\* C4: every memory get_associated_memories(c) returns is in the result of
\* search(c, include_associations=True), no limit given.
C4_AssociatedWithinSearch ==
    StoreJustBuilt =>
    \A c \in Concepts, cs \in BOOLEAN :
        Range(AssociatedIds(associations, c, NoneOpt))
            \subseteq Range(SearchIds(storage, associations, c, cs, NoneOpt, TRUE))

\* search("grav") has returned a memory that no text of it matches and that
\* get_associated_memories("grav") returns
C4_Witness ==
    /\ ret.op = "search"
    /\ ret.error = NoError
    /\ ret.args.keyword = tgrav
    /\ ret.args.limit = NoneOpt
    /\ ret.args.include_associations
    /\ \E i \in 1..Len(ret.value) :
          /\ ~EntryMatched(ret.value[i][2], tgrav, FALSE)
          /\ IsIn(ret.value[i][1], AssociatedIds(associations, tGrav, NoneOpt))

\* C5: the memories find_connections(A, B) returns are those that
\* get_associated_memories(A) and get_associated_memories(B) both return.
C5_ConnectionsAreIntersection ==
    StoreJustBuilt =>
    \A c1 \in Concepts, c2 \in Concepts :
        Range(ConnectionIds(associations, c1, c2))
            = Range(AssociatedIds(associations, c1, NoneOpt))
              \cap Range(AssociatedIds(associations, c2, NoneOpt))

\* find_connections has returned one memory of two that one of the concepts has
C5_Witness ==
    /\ ret.op = "find_connections"
    /\ ret.error = NoError
    /\ Len(ret.value) = 1
    /\ Len(AssociatedIds(associations, ret.args[1], NoneOpt)) = 2

\* C6: a search call that follows a search call with the same arguments
\* returns the same result.
C6_SearchIdempotent ==
    [][(ret.op = "search" /\ ret'.op = "search" /\ ret'.args = ret.args) =>
          (ret'.error = ret.error /\ ret'.value = ret.value)]_vars

\* the same search was called twice in a row and returned two memories
C6_Witness ==
    /\ ret.op = "search"
    /\ ret.again
    /\ ret.error = NoError
    /\ Len(ret.value) = 2

\* C7: with a limit of 0 or more, search returns at most limit entries.
C7_SearchSizeWithinLimit ==
    \A k \in Keywords, cs \in BOOLEAN, ia \in BOOLEAN, n \in 0..MaxLimit :
        Len(SearchIds(storage, associations, k, cs, Some(n), ia)) <= n

\* C8: search with a negative limit fails with InvalidArgument and returns
\* no mapping.
C8_NegativeLimitRejected ==
    (ret.op = "search" /\ ret.args.limit # NoneOpt /\ ret.args.limit[1] < 0) =>
        (ret.error = "InvalidArgument")

\* the memory file holds a document without one of its sections
Malformed == disk # Absent /\ disk # Corrupt /\ DOMAIN disk.data # Sections

\* C9: loading a malformed document fails with CorruptState and leaves the
\* three structures as they were before the load.
C9_MalformedLoadIsAllOrNothing ==
    [][(Malformed /\ ret'.op = "__init__" /\ disk' = disk /\ now' = now) =>
          /\ ret'.error = "CorruptState"
          /\ storage' = <<>>
          /\ associations' = <<>>
          /\ temporal_index' = <<>>]_vars

\* C10: a store call whose flush fails still returns the new id, and the
\* entry, its temporal bucket and its concepts stay in memory.
C10_FailedFlushKeepsMutation ==
    [][(StoreStep /\ memory_file # None /\ ioFailures' > ioFailures) =>
          /\ ret'.error = NoError
          /\ ret'.value = Len(storage)
          /\ SubSeq(storage', 1, Len(storage)) = storage
          /\ Len(storage') = Len(storage) + 1
          /\ IsEntryOf(storage'[Len(storage')], ret'.op, ret'.args)
          /\ HasKey(temporal_index', time_key(now))
          /\ IsIn(ret'.value, Get(temporal_index', time_key(now)))
          /\ (ret'.op = "store_experience" /\ Truthy(ret'.args[2])) =>
                \A i \in 1..Len(ret'.args[2][1]) :
                    /\ HasKey(associations', ToLower(ret'.args[2][1][i]))
                    /\ IsIn(ret'.value,
                            Get(associations', ToLower(ret'.args[2][1][i])))
          /\ ret'.op = "store_query" =>
                \A concept \in Range(extract_key_concepts(ret'.args[1], hashseed)) :
                    /\ HasKey(associations', ToLower(concept))
                    /\ IsIn(ret'.value, Get(associations', ToLower(concept)))]_vars

\* a store_experience with explicit concepts has returned id 1 after its
\* flush failed, and the memory file does not hold the new entry
C10_Witness ==
    /\ ret.op = "store_experience"
    /\ Truthy(ret.args[2])
    /\ ret.printed = "Could not save memory to file"
    /\ ret.error = NoError
    /\ ret.value = 1
    /\ Len(storage) = 2
    /\ disk # File(json_dump(export_full_system(storage, associations,
                                                temporal_index)))

\* what the caller of an operation gets when its persistence step succeeds
ValueOnSuccess(op) ==
    CASE op \in StoreOps -> Len(storage)
      [] op = "clear_memory" -> "[Memory system cleared]"
      [] OTHER -> None

\* a store call, a clear or a load whose persistence step failed
PersistenceFailed ==
    /\ ioFailures' > ioFailures
    /\ ret'.op \in StoreOps \cup {"clear_memory", "__init__"}

\* C11: a store call, a clear or a load whose persistence step fails hands
\* the failure to its caller: it raises, or its return value differs from the
\* one the same call gives when the step succeeds.
C11_IOFailureSurfaced ==
    [][PersistenceFailed =>
          \/ ret'.error # NoError
          \/ ret'.value # ValueOnSuccess(ret'.op)]_vars

\* a store call or a clear on a store with a memory file, no I/O failure
MutationPersisted ==
    /\ memory_file # None
    /\ ioFailures' = ioFailures
    /\ \/ StoreStep
       \/ ret'.op = "clear_memory" /\ ret' # ret

NoDuplicates(list) ==
    \A i, j \in 1..Len(list) : list[i] = list[j] => i = j

\* C13: the id list of every concept of the concept index holds an id at most
\* once, also after a store call that names one concept several times or in
\* different letter cases.
C13_ConceptListsDuplicateFree ==
    \A i \in 1..Len(associations) : NoDuplicates(associations[i][2])

\* store_experience was given the concepts "Grav" and "grav" for record 1,
\* and the list of "grav" holds the ids 0 and 1
C13_Witness ==
    /\ ret.op = "store_experience"
    /\ ret.args[2] = Some(<<tGrav, tgrav>>)
    /\ ret.error = NoError
    /\ ret.value = 1
    /\ HasKey(associations, tgrav)
    /\ Get(associations, tgrav) = <<0, 1>>

\* the number of times id occurs in list
RECURSIVE Occurrences(_, _)
Occurrences(list, id) ==
    IF list = <<>> THEN 0
    ELSE (IF Head(list) = id THEN 1 ELSE 0) + Occurrences(Tail(list), id)

\* the sizes of the buckets from bucket i on, summed
RECURSIVE BucketSizes(_, _)
BucketSizes(tindex, i) ==
    IF i > Len(tindex) THEN 0
    ELSE Len(tindex[i][2]) + BucketSizes(tindex, i + 1)

\* C14: every stored id is in exactly one bucket of the temporal index and
\* occurs exactly once in it; the bucket sizes sum to the number of records.
C14_OneBucketPerId ==
    /\ \A id \in 0..(Len(storage) - 1) :
          \E i \in 1..Len(temporal_index) :
             /\ Occurrences(temporal_index[i][2], id) = 1
             /\ \A j \in 1..Len(temporal_index) :
                   j # i => Occurrences(temporal_index[j][2], id) = 0
    /\ BucketSizes(temporal_index, 1) = Len(storage)

\* two records stored on different days, each in the bucket of its day
C14_Witness ==
    /\ Len(storage) = 2
    /\ Len(temporal_index) = 2
    /\ Get(temporal_index, time_key(0)) = <<0>>
    /\ Get(temporal_index, time_key(1)) = <<1>>

\* the ids 0 .. len(stor) - 1 in ascending order
AllIds(stor) == [i \in 1..Len(stor) |-> i - 1]

\* the keyword is a substring of the entry's query, of its result when that
\* is a str, or of its content
MentionsKeyword(entry, keyword, case_sensitive) ==
    \/ /\ "query" \in DOMAIN entry
       /\ Contains(Cased(entry.query, case_sensitive), Cased(keyword, case_sensitive))
    \/ /\ "result" \in DOMAIN entry
       /\ entry.result.tag = "str"
       /\ Contains(Cased(entry.result.text, case_sensitive),
                   Cased(keyword, case_sensitive))
    \/ /\ "content" \in DOMAIN entry
       /\ Contains(Cased(entry.content, case_sensitive),
                   Cased(keyword, case_sensitive))

\* the ids of the entries that contain the keyword, in ascending order
DirectIds(stor, keyword, case_sensitive) ==
    SelectSeq(AllIds(stor),
              LAMBDA id : MentionsKeyword(stor[id + 1], keyword, case_sensitive))

\* list without the ids of present
Without(list, present) == SelectSeq(list, LAMBDA id : ~IsIn(id, present))

\* the ids of the concept that is the lowercased keyword
ExactIds(assoc, keyword) ==
    IF HasKey(assoc, ToLower(keyword)) THEN Get(assoc, ToLower(keyword)) ELSE <<>>

\* id is in the list of a concept that contains the lowercased keyword and
\* differs from it
PartiallyAssociated(assoc, keyword, id) ==
    \E i \in 1..Len(assoc) :
       /\ Contains(assoc[i][1], ToLower(keyword))
       /\ assoc[i][1] # ToLower(keyword)
       /\ IsIn(id, assoc[i][2])

\* C15: search (no limit) lists the direct matches in ascending id order,
\* then the ids of the exact concept match in the order of that concept's
\* list, then the ids of the partial concept matches, an id already listed
\* being skipped each time; no id occurs twice.
C15_DiscoveryOrder ==
    StoreJustBuilt =>
    \A keyword \in Keywords, case_sensitive \in BOOLEAN :
       LET ids == SearchIds(storage, associations, keyword, case_sensitive,
                            NoneOpt, TRUE)
           direct == DirectIds(storage, keyword, case_sensitive)
           exact == Without(ExactIds(associations, keyword), direct)
           head == direct \o exact
       IN /\ NoDuplicates(ids)
          /\ Len(ids) >= Len(head)
          /\ SubSeq(ids, 1, Len(head)) = head
          /\ \A i \in (Len(head) + 1)..Len(ids) :
                PartiallyAssociated(associations, keyword, ids[i])
          /\ \A id \in 0..(Len(storage) - 1) :
                PartiallyAssociated(associations, keyword, id) => IsIn(id, ids)

\* search("grav") has returned record 1, a direct match, before record 0,
\* which it found under the concept "grav"
C15_Witness ==
    /\ ret.op = "search"
    /\ ret.error = NoError
    /\ ret.args.keyword = tgrav
    /\ ret.args.limit = NoneOpt
    /\ Len(ret.value) = 2
    /\ ret.value[1][1] = 1
    /\ ret.value[2][1] = 0
    /\ DirectIds(storage, tgrav, FALSE) = <<1>>
    /\ ExactIds(associations, tgrav) = <<0, 1>>

\* the concept index with its concepts in lexicographic order: the same
\* mapping from concepts to id lists
InKeyOrder(assoc) ==
    LET keys == Sorted({assoc[i][1] : i \in 1..Len(assoc)})
    IN [i \in 1..Len(keys) |-> <<keys[i], Get(assoc, keys[i])>>]

\* C16: the partial concept match scans the concepts in lexicographic order,
\* whatever the order in which they were first inserted: search gives the
\* result it gives on the store whose index holds the same contents in
\* lexicographic order.
C16_PartialMatchInKeyOrder ==
    \A keyword \in Keywords :
       SearchIds(storage, associations, keyword, FALSE, NoneOpt, TRUE)
       = SearchIds(storage, InKeyOrder(associations), keyword, FALSE, NoneOpt, TRUE)

\* no limit, or a positive one (a limit of 0 and a negative limit are the
\* subject of C7 and C8)
PositiveLimits == {NoneOpt} \cup {Some(n) : n \in 1..MaxLimit}

\* C17: search with include_associations = false returns exactly the direct
\* matches, in ascending id order and up to the limit: the entries whose
\* query, str result or content contains the keyword.
C17_DirectMatchesOnly ==
    StoreJustBuilt =>
    \A keyword \in Keywords, case_sensitive \in BOOLEAN, limit \in PositiveLimits :
       LET ids == SearchIds(storage, associations, keyword, case_sensitive,
                            limit, FALSE)
           direct == DirectIds(storage, keyword, case_sensitive)
       IN ids = IF limit = NoneOpt THEN direct ELSE Take(direct, limit[1])

\* search("Grav", case_sensitive, include_associations = false) has returned
\* one record and left out the other, which the concept "grav" names
C17_Witness ==
    /\ ret.op = "search"
    /\ ret.error = NoError
    /\ ret.args.keyword = tGrav
    /\ ~ret.args.include_associations
    /\ Len(ret.value) = 1
    /\ Len(storage) = 2
    /\ Len(ExactIds(associations, tGrav)) = 2

\* the ids of the entries stored on the days first .. last: by ascending day,
\* and in insertion order within a day
StoredBetween(stor, first, last) ==
    SelectSeq(AllIds(stor),
              LAMBDA id : /\ stor[id + 1].timestamp >= first
                          /\ stor[id + 1].timestamp <= last)

\* C18: get_temporal_context(anchor, window_days) returns exactly the entries
\* of the days anchor - window_days .. anchor + window_days, by ascending
\* day and in insertion order within a day; with window_days = 0, the entries
\* stored on the anchor day.
C18_TemporalWindow ==
    /\ \A id \in 1..(Len(storage) - 1) :
          storage[id].timestamp <= storage[id + 1].timestamp
    /\ \A target_date \in Days, window_days \in Windows :
          TemporalIds(temporal_index, target_date, window_days, NoneOpt)
          = StoredBetween(storage, target_date - window_days,
                          target_date + window_days)

\* get_temporal_context(day 0, window_days = 1) has returned the record of
\* day 0 and then the record of day 1
C18_Witness ==
    /\ ret.op = "get_temporal_context"
    /\ ret.error = NoError
    /\ ret.args[1] = 0
    /\ ret.args[2] = 1
    /\ Len(ret.value) = 2
    /\ ret.value[1].timestamp = 0
    /\ ret.value[2].timestamp = 1

Ascending(list) == \A i \in 1..(Len(list) - 1) : list[i] < list[i + 1]

\* C19: find_connections(A, B) returns the common entries in ascending id
\* order, and nothing when either concept is absent from the concept index.
C19_ConnectionsAscending ==
    \A concept1 \in Concepts, concept2 \in Concepts :
       LET ids == ConnectionIds(associations, concept1, concept2)
       IN /\ Ascending(ids)
          /\ (~HasKey(associations, ToLower(concept1))
              \/ ~HasKey(associations, ToLower(concept2))) => ids = <<>>

\* C20: the record sequence is append-only: a store call adds one entry at
\* the end and leaves the entries before it as they were, at their
\* positions; apart from that only clear_memory changes the sequence.
C20_AppendOnly ==
    [][\/ storage' = storage
       \/ /\ ret'.op = "clear_memory"
          /\ storage' = <<>>
       \/ /\ ret'.op \in StoreOps
          /\ Len(storage') = Len(storage) + 1
          /\ \A i \in 1..Len(storage) : storage'[i] = storage[i]]_vars

\* a second, different entry has been stored behind the first one
C20_Witness ==
    /\ ret.op \in StoreOps
    /\ ret.error = NoError
    /\ ret.value = 1
    /\ Len(storage) = 2
    /\ storage[1].type # storage[2].type

(***************************************************************************)
(* The caller and the entries it was handed.                               *)
(***************************************************************************)
\* matches[idx] = self.storage[idx]: the dict search returns for idx is the
\* object at this position of self.storage, not a copy of it
returned_entry_position(idx) == idx + 1

\* returned[idx]["type"] = "edited", by the caller
Edited(entry) == [entry EXCEPT !.type = "edited"]

\* the caller of search writes into one of the entries it was handed
caller_edit ==
    /\ ret.op = "search"
    /\ ret.error = NoError
    /\ \E i \in 1..Len(ret.value) :
         LET idx == ret.value[i][1]
         IN /\ storage' = [storage EXCEPT ![returned_entry_position(idx)] =
                                              Edited(@)]
            /\ ret' = [op |-> "caller_edit", args |-> <<idx>>, value |-> None,
                       error |-> NoError, printed |-> NoPrint]
    /\ UNCHANGED threadVars
    /\ UNCHANGED <<associations, temporal_index, memory_file, disk, hashseed,
                   now, ioFailures, base, calls>>

\* a store without a memory file and a caller that edits what search returns
NextCaller ==
    \/ store_query
    \/ store_experience
    \/ search
    \/ caller_edit

SpecCaller == Init /\ [][NextCaller]_vars

\* C21: the entries search returns are read-only views: nothing the caller
\* does with a returned entry changes the stored entry, the record sequence
\* or the indices.
C21_ReturnedEntriesReadOnly ==
    [][ret'.op = "caller_edit" =>
          /\ storage' = storage
          /\ associations' = associations
          /\ temporal_index' = temporal_index]_vars

\* the concepts under which the concept index lists id
ConceptsOf(assoc, id) ==
    {assoc[i][1] : i \in {j \in 1..Len(assoc) : IsIn(id, assoc[j][2])}}

\* C22: a store_experience call that is given a concept list, an empty one
\* included, associates the new id with the lowercased concepts of that list
\* and with no other concept: the extractor does not run.
C22_ExplicitConceptsOnly ==
    [][(StoreStep /\ ret'.op = "store_experience" /\ ret'.args[2] # NoneOpt) =>
          ConceptsOf(associations', ret'.value)
          = {ToLower(ret'.args[2][1][i]) : i \in 1..Len(ret'.args[2][1])}]_vars

\* text holds a capitalized word of four or more letters: a capital letter
\* and at least three small ones, not inside a longer word
HasCapitalizedWord(text) ==
    \E i \in 1..Len(text), j \in 1..Len(text) :
       /\ j >= i + 3
       /\ text[i] \in Upper
       /\ \A k \in (i + 1)..j : text[k] \in Lower
       /\ (i = 1 \/ text[i - 1] = " ")
       /\ (j = Len(text) \/ text[j + 1] = " ")

\* the texts a capitalized word or a phrase of the extractor can be: the
\* candidates of text are among these
Candidates(text) ==
    LET capitalized  == FindAllCap(text, 1)
        phrases      == FindAllPhrase(ToLower(text), 1)
    IN Range(capitalized \o phrases)

\* C23: the extractor returns at most 10 concepts for every text and at
\* least one for a text that holds a capitalized word of four or more
\* letters; a store_experience call without concepts associates the new id
\* with the concepts returned, at most 10.
C23_AtMostTenConcepts ==
    (ret.op = "store_experience" /\ ret.args[2] = NoneOpt) =>
       LET concepts == extract_key_concepts(ret.args[1], hashseed)
       IN /\ Len(concepts) <= 10
          /\ HasCapitalizedWord(ret.args[1]) => Len(concepts) >= 1
          /\ Cardinality(ConceptsOf(associations, ret.value)) <= 10
          /\ ConceptsOf(associations, ret.value)
             = {ToLower(concepts[i]) : i \in 1..Len(concepts)}

\* a text of twelve capitalized words, sixteen candidates, has been stored
\* without concepts, and its id is associated with ten concepts
C23_Witness ==
    /\ ret.op = "store_experience"
    /\ ret.args[2] = NoneOpt
    /\ ret.args[1] = JoinWords(ExtractWords)
    /\ Cardinality(Candidates(ret.args[1])) = 16
    /\ Cardinality(ConceptsOf(associations, ret.value)) = 10

\* C24: the extractor is deterministic: the concepts it returns for a text
\* are the same set in every process, also when the text has more than 10
\* candidates and the cap selects among them.
C24_ExtractionDeterministic ==
    (ret.op = "store_experience" /\ ret.args[2] = NoneOpt) =>
       \A seed \in Seeds :
          Range(extract_key_concepts(ret.args[1], seed))
          = Range(extract_key_concepts(ret.args[1], hashseed))

\* the memory file holds the snapshot of the store as JSON encodes it
SnapshotOf(stor, assoc, tindex) ==
    File(json_dump(export_full_system(stor, assoc, tindex)))

StaleAfterClear ==
    /\ ret.op = "clear_memory"
    /\ ret.printed = "Could not remove memory file"
    /\ storage = <<>>
    /\ disk # Absent /\ disk # Corrupt
    /\ disk.data.storage # <<>>

(***************************************************************************)
(* store_query called by two threads of one process. The interpreter runs  *)
(* one thread at a time and can switch between any two statements; the     *)
(* steps below are the statements of store_query that touch self. The      *)
(* class takes no lock: `synchronized` says whether the callers wrap each  *)
(* call in a lock of their own.                                            *)
(***************************************************************************)
Frame(t, pc, inp, timestamp, memory_index, slot, value) ==
    [frames EXCEPT ![t] = [pc |-> pc, inp |-> inp, timestamp |-> timestamp,
                           memory_index |-> memory_index, slot |-> slot,
                           value |-> value]]

\* the call begins: timestamp = datetime.now(), the entry is built
t_call(t) ==
    /\ frames[t].pc = "idle"
    /\ synchronized => lock = NoThread
    /\ lock' = IF synchronized THEN t ELSE lock
    /\ \E inp \in QueryInputs :
         frames' = Frame(t, "called", inp, now, None, None, None)
    /\ UNCHANGED <<storage, associations, temporal_index, memory_file, disk,
                   hashseed, now, ioFailures, base, calls, ret, synchronized>>

\* memory_index = len(self.storage)
t_measure(t) ==
    /\ frames[t].pc = "called"
    /\ frames' = [frames EXCEPT ![t].pc = "measured",
                                ![t].memory_index = NextIndex(storage)]
    /\ UNCHANGED <<storage, associations, temporal_index, memory_file, disk,
                   hashseed, now, ioFailures, base, calls, ret, lock,
                   synchronized>>

\* self.storage.append(entry); slot is not a local of the code: it keeps the
\* position the entry landed on
t_append(t) ==
    /\ frames[t].pc = "measured"
    /\ storage' = append_entry(storage,
                               [query |-> frames[t].inp[1],
                                result |-> frames[t].inp[2],
                                timestamp |-> frames[t].timestamp,
                                type |-> "query"])
    /\ frames' = [frames EXCEPT ![t].pc = "appended",
                                ![t].slot = Len(storage)]
    /\ UNCHANGED <<associations, temporal_index, memory_file, disk,
                   hashseed, now, ioFailures, base, calls, ret, lock,
                   synchronized>>

\* the entry's id is put in the bucket of its day
t_index_by_time(t) ==
    /\ frames[t].pc = "appended"
    /\ temporal_index' = IndexByTime(temporal_index,
                                     time_key(frames[t].timestamp),
                                     frames[t].memory_index)
    /\ frames' = [frames EXCEPT ![t].pc = "dated"]
    /\ UNCHANGED <<storage, associations, memory_file, disk,
                   hashseed, now, ioFailures, base, calls, ret, lock,
                   synchronized>>

\* self._index_concepts(memory_index, query, result)
t_index_concepts(t) ==
    /\ frames[t].pc = "dated"
    /\ associations' = index_concepts(associations, frames[t].memory_index,
                                      frames[t].inp[1], frames[t].inp[2],
                                      hashseed)
    /\ frames' = [frames EXCEPT ![t].pc = "indexed"]
    /\ UNCHANGED <<storage, temporal_index, memory_file, disk,
                   hashseed, now, ioFailures, base, calls, ret, lock,
                   synchronized>>

\* the flush, then return memory_index
t_return(t) ==
    /\ frames[t].pc = "indexed"
    /\ UNCHANGED <<storage, associations, temporal_index>>
    /\ \E outcome \in SaveOutcomes :
         Flush("store_query", frames[t].inp, frames[t].memory_index, outcome)
    /\ frames' = [frames EXCEPT ![t].pc = "returned",
                                ![t].value = frames[t].memory_index]
    /\ lock' = IF synchronized THEN NoThread ELSE lock
    /\ calls' = calls + 1
    /\ UNCHANGED <<memory_file, hashseed, now, base, synchronized>>

InitThreads == InitStore(None) /\ synchronized \in BOOLEAN

NextThreads ==
    \E t \in Threads :
       \/ t_call(t)
       \/ t_measure(t)
       \/ t_append(t)
       \/ t_index_by_time(t)
       \/ t_index_concepts(t)
       \/ t_return(t)

SpecThreads == InitThreads /\ [][NextThreads]_vars

\* the id a thread's call works with is not the id of the entry it appended
WrongEntry(t) == frames[t].memory_index # frames[t].slot

BothReturned == \A t \in Threads : frames[t].pc = "returned"

\* the two calls returned the same id, or the indices hold for a call an id
\* that is not the id of its entry
Raced ==
    /\ BothReturned
    /\ \/ frames["first"].value = frames["second"].value
       \/ \E t \in Threads : WrongEntry(t)

\* C26: two store calls of threads that are not synchronized can interleave
\* so that both return the same id and the indices refer to the wrong entry;
\* when the callers hold a lock over the whole call, no such state is
\* reachable.
C26_RaceOnlyWithoutLock == Raced => ~synchronized

\* both calls measured the store before either appended: both returned id 0,
\* and the second entry, at id 1, is indexed as 0
C26_Witness ==
    /\ BothReturned
    /\ ~synchronized
    /\ \A t \in Threads : frames[t].value = 0
    /\ Len(storage) = 2
    /\ \E t \in Threads : WrongEntry(t)
    /\ \A i \in 1..Len(temporal_index) : temporal_index[i][2] = <<0, 0>>

\* both calls returned under the lock
BothReturnedUnderLock == BothReturned /\ synchronized

\* the first min(n, len(s)) elements of s
FirstN(s, n) == SubSeq(s, 1, IF n < Len(s) THEN n ELSE Len(s))

\* C27: get_associated_memories(concept, limit) and
\* get_temporal_context(anchor, window_days, limit) return, for every
\* non-negative limit, 0 included, the first min(limit, n) entries of the n
\* entries they return without a limit.
C27_LimitTruncates ==
    /\ (/\ ret.op = "get_associated_memories"
        /\ ret.args[2] # NoneOpt
        /\ ret.args[2][1] >= 0) =>
          ret.value = FirstN(Entries(storage,
                                     AssociatedIds(associations, ret.args[1],
                                                   NoneOpt)),
                             ret.args[2][1])
    /\ (/\ ret.op = "get_temporal_context"
        /\ ret.args[3] # NoneOpt
        /\ ret.args[3][1] >= 0) =>
          ret.value = FirstN(Entries(storage,
                                     TemporalIds(temporal_index, ret.args[1],
                                                 ret.args[2], NoneOpt)),
                             ret.args[3][1])

\* the characters that differ from ch in letter case at most
CaseOf(ch) == {x \in Range(Alphabet) : LowerChar(x) = LowerChar(ch)}

\* the spellings of a text that differ from it in letter case only
RECURSIVE Spellings(_)
Spellings(text) ==
    IF text = <<>> THEN {<<>>}
    ELSE {<<h>> \o t : h \in CaseOf(Head(text)), t \in Spellings(Tail(text))}

\* C28: every key of the concept index is lowercase; get_associated_memories
\* and find_connections return the same for all spellings of a concept that
\* differ in letter case only; an entry stored with an explicit concept is
\* returned by get_associated_memories of every such spelling of it.
C28_CaseInsensitiveLookup ==
    /\ \A i \in 1..Len(associations) :
          associations[i][1] = ToLower(associations[i][1])
    /\ ret.op = "get_associated_memories" =>
          \A c \in Spellings(ret.args[1]) :
             ret.value = Entries(storage,
                                 AssociatedIds(associations, c, ret.args[2]))
    /\ ret.op = "find_connections" =>
          \A c \in Spellings(ret.args[1]), d \in Spellings(ret.args[2]) :
             ret.value = Entries(storage, ConnectionIds(associations, c, d))
    /\ \A i \in 1..Len(storage) :
          "concepts" \in DOMAIN storage[i] =>
             \A j \in 1..Len(storage[i].concepts) :
                \A c \in Spellings(storage[i].concepts[j]) :
                   IsIn(i - 1, AssociatedIds(associations, c, NoneOpt))

\* C29: for every positive limit L, search(k, limit=L) is the first
\* min(L, n) entries, in order, of the n entries of search(k, limit=None)
\* with the same other arguments.
C29_LimitIsPrefix ==
    /\ (/\ ret.op = "search"
        /\ ret.args.limit # NoneOpt
        /\ ret.args.limit[1] > 0) =>
          ret.value = FirstN(SearchResult(storage, associations,
                                          ret.args.keyword,
                                          ret.args.case_sensitive, NoneOpt,
                                          ret.args.include_associations),
                             ret.args.limit[1])
    /\ StoreJustBuilt =>
          \A keyword \in Keywords, case_sensitive \in BOOLEAN,
             include_associations \in BOOLEAN, L \in 1..MaxLimit :
             SearchIds(storage, associations, keyword, case_sensitive,
                       Some(L), include_associations)
             = FirstN(SearchIds(storage, associations, keyword, case_sensitive,
                                NoneOpt, include_associations), L)

\* a search with limit 1 stopped in the expansion: no entry mentions the
\* keyword, two are associated with it, the first of them came back
C29_Witness ==
    /\ ret.op = "search"
    /\ ret.args.limit = Some(1)
    /\ Len(ret.value) = 1
    /\ DirectScan(storage, ret.args.keyword, ret.args.case_sensitive,
                  NoneOpt, 1, <<>>) = <<>>
    /\ Len(SearchIds(storage, associations, ret.args.keyword,
                     ret.args.case_sensitive, NoneOpt,
                     ret.args.include_associations)) = 2

\* a search with limit 1 stopped in the direct scan, a second entry matching
C29_DirectScanStopped ==
    /\ ret.op = "search"
    /\ ret.args.limit = Some(1)
    /\ Len(DirectScan(storage, ret.args.keyword, ret.args.case_sensitive,
                      NoneOpt, 1, <<>>)) = 2

QueryOps == {"search", "get_associated_memories", "find_connections",
             "get_temporal_context"}

\* every id of the lists of an index is a position of the record sequence
ValidIds(index) ==
    \A i \in 1..Len(index) :
       \A j \in 1..Len(index[i][2]) :
          index[i][2][j] \in 0..(Len(storage) - 1)

\* no entry mentions the keyword and no concept contains it
MatchesNothing(keyword, case_sensitive) ==
    /\ \A i \in 1..Len(storage) :
          ~MentionsKeyword(storage[i], keyword, case_sensitive)
    /\ \A i \in 1..Len(associations) :
          ~Contains(associations[i][1], ToLower(keyword))

\* C30: after any store and clear calls every id of a concept list or of a
\* temporal bucket is at least 0 and less than the number of records; search,
\* get_associated_memories, find_connections and get_temporal_context do not
\* raise; search for a keyword that matches nothing returns an empty result.
C30_IdsValidQueriesTotal ==
    /\ ValidIds(associations)
    /\ ValidIds(temporal_index)
    /\ ret.op \in QueryOps => ret.error = NoError
    /\ (ret.op = "search"
        /\ MatchesNothing(ret.args.keyword, ret.args.case_sensitive)) =>
          ret.value = <<>>

\* on a store that holds records, concept lists and temporal buckets, search
\* found nothing for its keyword and returned the empty result
C30_Witness ==
    /\ ret.op = "search"
    /\ ret.error = NoError
    /\ ret.value = <<>>
    /\ storage # <<>>
    /\ associations # <<>>
    /\ temporal_index # <<>>
    /\ MatchesNothing(ret.args.keyword, ret.args.case_sensitive)

(***************************************************************************)
(* __len__, summarize_by_time, and get_temporal_context called with a str. *)
(***************************************************************************)
MaxReadRecords == 2

\* the store_experience calls of a run of queries
ReadInputs == {<<tNewtGrav, NoneOpt>>, <<tabc, Some(<<tGrav, tgrav>>)>>}

store_experience_read == StoreExperience(ReadInputs, MaxReadRecords)

\* a str argument: the ISO text of a timestamp on a day, or another text
IsoString(day) == [tag |-> "str", iso |-> TRUE, day |-> day]

PlainString(text) == [tag |-> "str", iso |-> FALSE, text |-> text]

\* datetime.fromisoformat(text), then datetime.strptime(text, "%Y-%m-%d"):
\* the day, or NoneOpt when both raise ValueError
parse_date(arg) == IF arg.iso THEN Some(arg.day) ELSE NoneOpt

DateStrings == {IsoString(d) : d \in Days} \cup {PlainString(tabc)}

\* lines 300-309: return [] if unparseable
temporal_ids_str(tindex, arg, window_days, limit) ==
    IF parse_date(arg) = NoneOpt THEN <<>>
    ELSE TemporalIds(tindex, parse_date(arg)[1], window_days, limit)

\* ret.parsed is not returned: it keeps what the parse of the argument gave
get_temporal_context_str ==
    /\ \E arg \in DateStrings, window_days \in Windows, limit \in {NoneOpt} :
         \E ids \in {temporal_ids_str(temporal_index, arg, window_days, limit)} :
         \E r \in {Returned("get_temporal_context",
                            <<arg, window_days, limit>>, ids,
                            Entries(storage, ids))} :
            ret' = [op |-> r.op, args |-> r.args, value |-> r.value,
                    error |-> r.error, printed |-> r.printed,
                    parsed |-> parse_date(arg)]
    /\ UNCHANGED threadVars
    /\ UNCHANGED <<storage, associations, temporal_index, memory_file, disk,
                   hashseed, now, ioFailures, base, calls>>

\* __len__
len_ ==
    /\ ret' = [op |-> "__len__", args |-> <<>>, value |-> Len(storage),
               error |-> NoError, printed |-> NoPrint]
    /\ UNCHANGED threadVars
    /\ UNCHANGED <<storage, associations, temporal_index, memory_file, disk,
                   hashseed, now, ioFailures, base, calls>>

Periods == {"day", "month", "hour"}

\* timestamp.strftime of the period's format; the days of a run lie in one
\* month, and a period other than day, month and year is taken as day
period_key(timestamp, period) ==
    IF period = "month" THEN <<"month">> ELSE <<"day", time_key(timestamp)>>

\* mutant of Summarize: every entry starts its key's count anew
RECURSIVE SummarizeLast(_, _, _, _)
SummarizeLast(stor, period, i, summary) ==
    IF i > Len(stor) THEN summary
    ELSE IF "timestamp" \notin DOMAIN stor[i]
         THEN SummarizeLast(stor, period, i + 1, summary)
         ELSE SummarizeLast(stor, period, i + 1,
                            Put(summary, period_key(stor[i].timestamp, period), 1))

\* lines 474-486: the counts of the entries from entry i (1-based) on
RECURSIVE Summarize(_, _, _, _)
Summarize(stor, period, i, summary) ==
    IF i > Len(stor) THEN summary
    ELSE IF "timestamp" \notin DOMAIN stor[i]
         THEN Summarize(stor, period, i + 1, summary)
         ELSE LET key == period_key(stor[i].timestamp, period)
                  s1 == IF HasKey(summary, key) THEN summary
                        ELSE Put(summary, key, 0)
              IN Summarize(stor, period, i + 1, Put(s1, key, Get(s1, key) + 1))

summarize_by_time ==
    /\ \E period \in Periods :
         ret' = [op |-> "summarize_by_time", args |-> <<period>>,
                 value |-> Summarize(storage, period, 1, <<>>),
                 error |-> NoError, printed |-> NoPrint]
    /\ UNCHANGED threadVars
    /\ UNCHANGED <<storage, associations, temporal_index, memory_file, disk,
                   hashseed, now, ioFailures, base, calls>>

NextRead ==
    \/ store_experience_read
    \/ clear_memory
    \/ Tick
    \/ search
    \/ get_temporal_context
    \/ get_temporal_context_str
    \/ get_associated_memories
    \/ find_connections
    \/ len_
    \/ summarize_by_time

SpecRead == InitPersist /\ [][NextRead]_vars

ReadOps == QueryOps \cup {"__len__", "summarize_by_time"}

\* C31: search, get_temporal_context, get_associated_memories,
\* find_connections, __len__ and summarize_by_time leave the records, the
\* concept index, the temporal index and the memory file as they were, for
\* every argument; an absent concept and a text that is no date give an
\* empty result.
C31_QueriesChangeNothing ==
    [][/\ ret'.op \in ReadOps =>
             UNCHANGED <<storage, associations, temporal_index, disk>>
       /\ (/\ ret'.op = "get_temporal_context"
           /\ "parsed" \in DOMAIN ret'
           /\ ret'.parsed = NoneOpt) => ret'.value = <<>>
       /\ (/\ ret'.op = "get_associated_memories"
           /\ ~HasKey(associations, ToLower(ret'.args[1]))) =>
             ret'.value = <<>>]_vars

\* get_temporal_context of a text that is no date returned the empty list
\* on a store that holds records, on the disk as well
C31_Witness ==
    /\ ret.op = "get_temporal_context"
    /\ "parsed" \in DOMAIN ret
    /\ ret.parsed = NoneOpt
    /\ ret.value = <<>>
    /\ Len(storage) = 2
    /\ disk = SnapshotOf(storage, associations, temporal_index)

\* every list of the index `new` is the list `old` has for its key, or that
\* list with j appended; a key `old` does not have holds j alone
GrownBy(old, new, j) ==
    /\ \A i \in 1..Len(old) : HasKey(new, old[i][1])
    /\ \A i \in 1..Len(new) :
          LET before == IF HasKey(old, new[i][1]) THEN Get(old, new[i][1])
                        ELSE <<>>
          IN \/ new[i][2] = before /\ HasKey(old, new[i][1])
             \/ new[i][2] = Append(before, j)

\* the keys whose list holds j
KeysOf(index, j) == {i \in 1..Len(index) : IsIn(j, index[i][2])}

\* C32: a store call that creates id j appends j, and nothing else, to
\* concept lists and to one temporal bucket: every list keeps what it held
\* as a prefix; every concept list and every bucket is in ascending id order.
C32_IndexMembershipsFixed ==
    [][/\ StoreStep =>
            /\ GrownBy(associations, associations', Len(storage))
            /\ GrownBy(temporal_index, temporal_index', Len(storage))
            /\ Cardinality(KeysOf(temporal_index', Len(storage))) = 1
       /\ \A i \in 1..Len(associations') :
             Ascending(associations'[i][2])
       /\ \A i \in 1..Len(temporal_index') :
             Ascending(temporal_index'[i][2])]_vars

\* the second store call of a day gave the concept of the first: a concept
\* list and the day's bucket hold 0 and 1
C32_Witness ==
    /\ ret.op \in StoreOps
    /\ ret.value = 1
    /\ \E i \in 1..Len(associations) : associations[i][2] = <<0, 1>>
    /\ \E i \in 1..Len(temporal_index) : temporal_index[i][2] = <<0, 1>>

\* the ids of the entries whose timestamp is on the day of key
IdsOfDay(key) ==
    {i \in 0..(Len(storage) - 1) :
        "timestamp" \in DOMAIN storage[i + 1]
        /\ time_key(storage[i + 1].timestamp) = key}

\* C33: every id lies in the temporal bucket of the day of its entry's own
\* timestamp and in no other, so summarize_by_time("day") gives for every
\* day the number of ids of that day's bucket.
C33_TemporalIndexAgrees ==
    /\ \A i \in 1..Len(temporal_index) :
          /\ Range(temporal_index[i][2]) = IdsOfDay(temporal_index[i][1])
          /\ Len(temporal_index[i][2]) = Cardinality(IdsOfDay(temporal_index[i][1]))
    /\ \A d \in Days : IdsOfDay(time_key(d)) # {} => HasKey(temporal_index, time_key(d))
    /\ (ret.op = "summarize_by_time" /\ ret.args[1] = "day") =>
          /\ Len(ret.value) = Len(temporal_index)
          /\ \A i \in 1..Len(temporal_index) :
                /\ HasKey(ret.value, <<"day", temporal_index[i][1]>>)
                /\ Get(ret.value, <<"day", temporal_index[i][1]>>)
                   = Len(temporal_index[i][2])

\* summarize_by_time("day") counted one entry on each of two days
C33_Witness ==
    /\ ret.op = "summarize_by_time"
    /\ ret.args[1] = "day"
    /\ Len(ret.value) = 2
    /\ Len(temporal_index) = 2
    /\ \A i \in 1..2 : ret.value[i][2] = 1

(***************************************************************************)
(* Texts with a capital sigma: str.lower() turns it into the final sigma   *)
(* at the end of a word and into the sigma elsewhere.                      *)
(***************************************************************************)
MaxCaseRecords == 2

tSigmaWord == <<"a", "Σ", "a">>

tSigmaEnd == <<"a", "Σ">>

tsigma == <<"a", "σ">>

\* the store_experience calls of a run on such texts
CaseInputs ==
    {<<tSigmaWord, Some(<<tsigma>>)>>,
     <<tabc, Some(<<tGrav>>)>>,
     <<tNewtGrav, NoneOpt>>}

store_experience_cased == StoreExperience(CaseInputs, MaxCaseRecords)

CaseKeywords == {tSigmaEnd, tGrav}

CaseConcepts == {tsigma, tSigmaEnd, tGrav}

\* search(keyword, case_sensitive)
search_cased ==
    /\ \E keyword \in CaseKeywords, case_sensitive \in BOOLEAN :
         \E call \in {[keyword |-> keyword, case_sensitive |-> case_sensitive,
                       limit |-> NoneOpt, include_associations |-> TRUE]} :
         \E ids \in {SearchIds(storage, associations, call.keyword,
                               call.case_sensitive, call.limit,
                               call.include_associations)} :
         \E r \in {Returned("search", call, ids, EntriesById(storage, ids))} :
            ret' = [op |-> r.op, args |-> r.args, value |-> r.value,
                    error |-> r.error, printed |-> r.printed,
                    again |-> ret.op = "search" /\ ret.args = call]
    /\ UNCHANGED threadVars
    /\ UNCHANGED <<storage, associations, temporal_index, memory_file, disk,
                   hashseed, now, ioFailures, base, calls>>

\* get_associated_memories(concept)
get_associated_memories_cased ==
    /\ \E concept \in CaseConcepts, limit \in {NoneOpt} :
         \E ids \in {AssociatedIds(associations, concept, limit)} :
            ret' = Returned("get_associated_memories", <<concept, limit>>, ids,
                            Entries(storage, ids))
    /\ UNCHANGED threadVars
    /\ UNCHANGED <<storage, associations, temporal_index, memory_file, disk,
                   hashseed, now, ioFailures, base, calls>>

NextCase ==
    \/ store_experience_cased
    \/ clear_memory
    \/ search_cased
    \/ get_associated_memories_cased

SpecCase == Init /\ [][NextCase]_vars

\* C34: with no limit and include_associations = true, every entry that
\* search(k, case_sensitive = true) returns is returned by
\* search(k, case_sensitive = false) as well.
C34_SensitiveWithinInsensitive ==
    /\ (/\ ret.op = "search"
        /\ ret.args.case_sensitive
        /\ ret.args.limit = NoneOpt
        /\ ret.args.include_associations) =>
          \A i \in 1..Len(ret.value) :
             IsIn(ret.value[i],
                  SearchResult(storage, associations, ret.args.keyword, FALSE,
                               NoneOpt, TRUE))
    /\ \A keyword \in CaseKeywords \cup Keywords :
          Range(SearchIds(storage, associations, keyword, TRUE, NoneOpt, TRUE))
          \subseteq
          Range(SearchIds(storage, associations, keyword, FALSE, NoneOpt, TRUE))

\* a step of __init__ in a new process
ConstructStep == ret'.op = "__init__" /\ disk' = disk /\ now' = now

\* the memory file holds a document with its three sections
WellFormed == disk # Absent /\ disk # Corrupt /\ DOMAIN disk.data = Sections

LoadFailed == "Could not load memory from file"

\* C35: __init__ on a well-formed memory file restores the three structures
\* from it; the next store call returns the number of restored records as
\* its id and leaves the restored entries at their ids.
C35_RestoredIdsContinue ==
    [][/\ (ConstructStep /\ WellFormed /\ ret'.printed = NoPrint) =>
             /\ storage' = disk.data.storage
             /\ associations' = disk.data.associations
             /\ temporal_index' = disk.data.temporal_index
       /\ (StoreStep /\ ret.op = "__init__") =>
             /\ ret'.value = Len(storage)
             /\ Len(storage') = Len(storage) + 1
             /\ SubSeq(storage', 1, Len(storage)) = storage]_vars

\* the first store call after the load of one record returned id 1
C35_Witness ==
    /\ ret.op \in StoreOps
    /\ base = 1
    /\ calls = 1
    /\ ret.value = 1
    /\ Len(storage) = 2
    /\ \E i \in 1..Len(associations) : IsIn(0, associations[i][2])

\* C36: __init__ on a memory file that exists and cannot be read or parsed
\* raises nothing and leaves the three structures empty; the next store call
\* whose save succeeds overwrites the file with the snapshot of the new
\* state, one record.
C36_UnreadableFileStartsEmpty ==
    [][/\ (ConstructStep /\ disk # Absent /\ ret'.printed = LoadFailed) =>
             /\ ret'.error = NoError
             /\ storage' = <<>>
             /\ associations' = <<>>
             /\ temporal_index' = <<>>
       /\ (/\ StoreStep
           /\ ret.op = "__init__"
           /\ ret.printed = LoadFailed
           /\ ioFailures' = ioFailures) =>
             /\ Len(storage') = 1
             /\ disk' = SnapshotOf(storage', associations', temporal_index')]_vars

\* the load of a memory file that holds records failed: the store is empty
C36_Witness ==
    /\ ret.op = "__init__"
    /\ ret.printed = LoadFailed
    /\ ret.error = NoError
    /\ disk # Corrupt
    /\ disk # Absent
    /\ disk.data.storage # <<>>
    /\ storage = <<>>
    /\ associations = <<>>
    /\ temporal_index = <<>>

\* the load of a memory file that cannot be parsed failed
C36_CorruptLoaded ==
    /\ ret.op = "__init__"
    /\ ret.printed = LoadFailed
    /\ disk = Corrupt

=============================================================================
